---- MODULE Spec2Model ----
(***************************************************************************)
(* pyRio: the event index of one match (EventSearch), built from a         *)
(* StatObj over the decoded stat file, and its query surface.              *)
(*                                                                         *)
(* A Python set is a TLA+ set, a dict a function, a list a sequence.       *)
(* A call either returns a value or raises: Ret(v) / Raise(exception).     *)
(***************************************************************************)
EXTENDS Integers, Sequences, FiniteSets, TLC

VARIABLES
    rec,      \* the StatObj: statJson of one match (metadata, rosters, events)
    Lookup,   \* what the name Lookup is bound to where characterName calls it
    phase,    \* "building" (inside __init__'s loop), "ready", "failed"
    eventNum, \* loop counter of __init__'s enumerate
    idx,      \* the EventSearch instance: every bucket dict and marker set
    raised,   \* exception type that ended __init__ ("" if none)
    last,     \* the last query: [op, arg, out]
    again     \* a second EventSearch over the same StatObj: [phase, eventNum, idx, raised]

vars == <<rec, Lookup, phase, eventNum, idx, raised, last, again>>

\* ------------------------------------------------------------------ bounds
MaxEvents == 2
MaxListLen == 2
Beyond == 1

\* ------------------------------------------------------- call outcomes
Ret(v) == [kind |-> "ret", val |-> v, exc |-> ""]
Raise(e) == [kind |-> "raise", val |-> {}, exc |-> e]

Abs(i) == IF i < 0 THEN -i ELSE i
Max(S) == CHOOSE m \in S : \A x \in S : x <= m

RECURSIVE SeqsUpTo(_, _)
SeqsUpTo(S, n) ==
    IF n = 0 THEN {<<>>}
    ELSE LET shorter == SeqsUpTo(S, n - 1)
         IN  shorter \cup {Append(s, x) : s \in {t \in shorter : Len(t) = n - 1}, x \in S}

\* ------------------------------------------------- lookup.py: LookupDicts
FINAL_RESULT ==
    {"None", "Strikeout", "Walk (BB)", "Walk (HBP)", "Out", "Caught",
     "Caught line-drive", "Single", "Double", "Triple", "HR", "Error - Input",
     "Error - Chem", "Bunt", "SacFly", "Ground ball double Play", "Foul catch"}
POSITION == {"P", "C", "1B", "2B", "3B", "SS", "LF", "CF", "RF", "Inv", "None"}
PITCH_TYPE == {"Curve", "Charge", "ChangeUp"}
CHARGE_TYPE == {"N/A", "Slider", "Perfect"}
TYPE_OF_SWING == {"None", "Slap", "Charge", "Star", "Bunt"}
CONTACT_TYPE == {"Miss", "Sour - Left", "Nice - Left", "Perfect", "Nice - Right", "Sour - Right"}
INPUT_DIRECTION ==
    {"", "Left", "Right", "Left+Right", "Down", "Left+Down", "Right+Down",
     "Left+Right+Down", "Up", "Left+Up", "Right+Up", "Left+Right+Up",
     "Left+Down+Up", "Right+Down+Up", "Left+Right+Down+Up"}
\* CHAR_NAME, cut to the characters the rosters below use: id (as its digits) -> name
CHAR_NAME == [i \in {"0", "1", "2"} |-> CASE i = "0" -> "Mario" [] i = "1" -> "Luigi" [] OTHER -> "DK"]
CharNames == {CHAR_NAME[i] : i \in DOMAIN CHAR_NAME}

\* Lookup._lookup(CHAR_NAME, term) on one term: an id gives its name, a name its id.
single_lookup(term) ==
    IF term \in DOMAIN CHAR_NAME THEN CHAR_NAME[term]
    ELSE IF term \in CharNames THEN CHOOSE i \in DOMAIN CHAR_NAME : CHAR_NAME[i] = term
    ELSE "Invalid ID or Name"

\* Lookup.get_character(self, search_term, output_format="name")
get_character(search_term) ==
    LET result == single_lookup(search_term)
    IN  IF result \in DOMAIN CHAR_NAME THEN search_term ELSE result

\* The call Lookup.get_character(charID, output_format=...) of characterName.
\* Lookup is imported as the class: charID binds to self and search_term is
\* missing, which is a TypeError. On an instance the method is bound.
call_get_character(binding, charID) ==
    IF binding = "class" THEN Raise("TypeError") ELSE Ret(get_character(charID))

\* ------------------------------------------------------ the stat file
NoFielder ==
    [present |-> FALSE, pos |-> "None", char |-> "", action |-> "None",
     bobble |-> "None", manual |-> "No Selected Char"]
NoContact ==
    [present |-> FALSE, type |-> "", stick |-> "", frame |-> 0, fivestar |-> 0,
     fielder |-> NoFielder]
NoPitch ==
    [present |-> FALSE, ptype |-> "", ctype |-> "", zone |-> 0, swing |-> "",
     star |-> 0, contact |-> NoContact]
Fielder(pos, char, action, bobble, manual) ==
    [present |-> TRUE, pos |-> pos, char |-> char, action |-> action,
     bobble |-> bobble, manual |-> manual]
Contact(type, stick, frame, fivestar, fielder) ==
    [present |-> TRUE, type |-> type, stick |-> stick, frame |-> frame,
     fivestar |-> fivestar, fielder |-> fielder]
Pitch(ptype, ctype, zone, swing, star, contact) ==
    [present |-> TRUE, ptype |-> ptype, ctype |-> ctype, zone |-> zone,
     swing |-> swing, star |-> star, contact |-> contact]

\* One entry of statJson['Events'] (the keys of the sample at the end of
\* stat_file_parser.py); runners = the bases with a 'Runner nB' sub-record,
\* steals = those of them whose 'Steal' is not 'None', missing = the mandatory
\* keys the entry does not have.
BaseEvent ==
    [inning |-> 1, half |-> 0, away |-> 0, home |-> 0, balls |-> 0, strikes |-> 0,
     outs |-> 0, star |-> 0, stamina |-> 10, chem |-> 0, pitcherLoc |-> 0,
     batterLoc |-> 1, rbi |-> 0, outsPlay |-> 0, result |-> "None",
     runners |-> {}, steals |-> {}, pitch |-> NoPitch, missing |-> {}]

EventPool ==
    << [BaseEvent EXCEPT !.strikes = 2, !.outsPlay = 1, !.result = "Strikeout", !.stamina = 9,
                        !.pitch = Pitch("Curve", "N/A", 1, "Slap", 0, NoContact)],
      [BaseEvent EXCEPT !.half = 1, !.balls = 1, !.chem = 1, !.result = "Single",
                        !.runners = {1}, !.home = 1, !.stamina = 1,
                        !.pitch = Pitch("Charge", "Slider", 1, "Charge", 0,
                                        Contact("Nice - Right", "Right", 2, 0,
                                                Fielder("SS", "Mario", "Sliding", "None", "No Selected Char")))],
      [BaseEvent EXCEPT !.half = 1, !.result = "HR", !.rbi = 1, !.inning = 2, !.away = 1, !.home = 1,
                        !.pitch = Pitch("ChangeUp", "N/A", 0, "Star", 1,
                                        Contact("Perfect", "", 10, 1, NoFielder))],
      [BaseEvent EXCEPT !.runners = {1, 2}, !.steals = {1}, !.inning = 2, !.away = 1, !.home = 2,
                        !.outs = 2, !.stamina = 3, !.chem = 2],
      [BaseEvent EXCEPT !.runners = {2, 3}, !.balls = 3, !.strikes = 1, !.star = 1, !.home = 1,
                        !.stamina = 0, !.outs = 1, !.result = "Walk (BB)", !.rbi = 1,
                        !.pitch = Pitch("Knuckle", "N/A", 0, "None", 0, NoContact)],
      [BaseEvent EXCEPT !.runners = {1, 2, 3}, !.result = "Caught", !.away = 2, !.home = 2, !.chem = 3,
                        !.outsPlay = 2, !.stamina = 2,
                        !.pitch = Pitch("Curve", "N/A", 1, "Bunt", 0,
                                        Contact("Sour - Left", "Left+Up", 0, 0,
                                                Fielder("CF", "Luigi", "Walljump", "Fireball", "Selected This Char")))],
      [BaseEvent EXCEPT !.result = "Interference", !.balls = 2,
                        !.pitch = Pitch("Curve", "N/A", 0, "None", 0, NoContact)] >>

TeamRoster(a, b) == [loc \in 0..8 |-> IF loc = 0 THEN a ELSE b]
NamedRoster == [t \in 0..1 |-> IF t = 0 THEN TeamRoster("Mario", "Luigi") ELSE TeamRoster("Luigi", "DK")]
IdRoster == [t \in 0..1 |-> IF t = 0 THEN TeamRoster("0", "Luigi") ELSE TeamRoster("Luigi", "DK")]

\* Match metadata of the records: 'Version', the final 'Away Score' and
\* 'Home Score', 'Innings Played', and the CharID of each roster entry.
Meta(version, away, home, roster) ==
    [version |-> version, awayFinal |-> away, homeFinal |-> home, innings |-> 2,
     roster |-> roster]
MetaPool ==
    {Meta("2.0.2", f[1], f[2], NamedRoster) : f \in {<<1, 2>>, <<2, 1>>, <<2, 2>>}}
    \cup {Meta("1.9.1", 1, 2, NamedRoster), Meta("2.0.2", 2, 2, IdRoster)}

\* The event lists of the records: up to MaxEvents different events drawn from
\* the pool, in pool order.
EventLists ==
    LET picks == {p \in SeqsUpTo(1..Len(EventPool), MaxEvents) :
                    \A i \in 1..(Len(p) - 1) : p[i] < p[i + 1]}
    IN  {[i \in 1..Len(p) |-> EventPool[p[i]]] : p \in picks}

Record(m, ev) ==
    [version |-> m.version, awayFinal |-> m.awayFinal, homeFinal |-> m.homeFinal,
     innings |-> m.innings, roster |-> m.roster, events |-> ev]

\* the keys of an event that EventSearch.__init__ reads with eventDict[key]
MandatoryKeys ==
    {"inning", "half", "away", "home", "balls", "strikes", "outs", "star", "stamina",
     "chem", "pitcherLoc", "batterLoc", "rbi", "outsPlay", "result"}

\* stat files in which one event, at any position, lacks one mandatory key
DefectiveRecords ==
    LET m == Meta("2.0.2", 1, 2, NamedRoster)
    IN  UNION {{Record(m, [ev EXCEPT ![k].missing = {key}]) :
                    k \in 1..Len(ev), key \in MandatoryKeys} : ev \in EventLists}

\* the match of three plate appearances: a strikeout, a single with a runner
\* on first, a home run with the bases empty
ScenarioA ==
    Record(Meta("2.0.2", 1, 2, NamedRoster), <<EventPool[1], EventPool[2], EventPool[3]>>)

\* one at-bat and the next batter: the first pitch taken for a ball (a Pitch,
\* no result yet), the strikeout that ends the at-bat, and an event without a
\* Pitch sub-record at the count 0-0, the away side ahead by then
TakenBall == [BaseEvent EXCEPT !.pitch = Pitch("Curve", "N/A", 0, "None", 0, NoContact)]
AtBatRecord ==
    Record(Meta("2.0.2", 1, 2, NamedRoster), <<TakenBall, EventPool[1], [EventPool[4] EXCEPT !.away = 1, !.home = 0]>>)

\* line 783: the 'Event Num' the game records overflows past event 255
EventNumWrap == 256

\* a match of more events than 'Event Num' can count: event 256 is recorded
\* under the number of event 0
LongRecord ==
    Record(Meta("2.0.2", 1, 2, NamedRoster),
           [k \in 1..(EventNumWrap + 1) |-> IF k % 2 = 1 THEN EventPool[1] ELSE EventPool[4]])

Records ==
    {Record(m, ev) : m \in MetaPool, ev \in EventLists}
    \cup DefectiveRecords
    \cup {ScenarioA, AtBatRecord}

\* ------------------------------------------------------------ StatObj
VERSION_LIST_HOME_AWAY_FLIPPED == {"Pre 0.1.7", "0.1.7a", "0.1.8", "0.1.9", "1.9.1"}

teamNumVersionCorrection(r, teamNum) ==
    IF r.version \in VERSION_LIST_HOME_AWAY_FLIPPED THEN Abs(teamNum - 1) ELSE teamNum

\* StatObj.score: the final score of a side, after the version correction
score(r, teamNum) ==
    IF teamNumVersionCorrection(r, teamNum) = 0 THEN r.awayFinal ELSE r.homeFinal

inningsPlayed(r) == r.innings

\* characterGameStats().values(): the CharID of every roster entry
characterGameStats(r) == {r.roster[t][loc] : t \in 0..1, loc \in 0..8}

\* StatObj.characterName(teamNum, rosterNum): no version correction here; the
\* roster entry is statJson["Character Game Stats"][getTeamString(teamNum, rosterNum)].
characterName(r, binding, teamNum, rosterNum) ==
    IF teamNum # 0 /\ teamNum # 1 THEN Raise("Exception")
    ELSE IF rosterNum < -1 \/ rosterNum > 8 THEN Raise("ValueError")
    ELSE IF rosterNum = -1 THEN Raise("TypeError")   \* a list of names: no dict key
    ELSE call_get_character(binding, r.roster[teamNum][rosterNum])

\* StatObj.getTeamString(teamNum, rosterNum): the key of an entry of
\* statJson["Character Game Stats"]. "Team t Roster x" and "Away|Home Roster x"
\* are both given by the pair (t, x), which stands for the key.
getTeamString(r, teamNum, rosterNum) == <<teamNum, rosterNum>>

\* "if rosterNum == -1: for x in range(0, 9)", else the one roster spot
rosterSpots(rosterNum) == IF rosterNum = -1 THEN 0..8 ELSE {rosterNum}

\* The accessors of StatObj that take a teamNum. Each is given by the entries
\* of "Character Game Stats" it reads its value from: the keys getTeamString
\* is called with on its call path.
\* offensiveStats, defensiveStats, isStarred: the correction, then the entry
offensiveStats(r, teamNum, rosterNum) ==
    {getTeamString(r, teamNumVersionCorrection(r, teamNum), x) : x \in rosterSpots(rosterNum)}
defensiveStats(r, teamNum, rosterNum) ==
    {getTeamString(r, teamNumVersionCorrection(r, teamNum), x) : x \in rosterSpots(rosterNum)}
isStarred(r, teamNum, rosterNum) ==
    {getTeamString(r, teamNumVersionCorrection(r, teamNum), x) : x \in rosterSpots(rosterNum)}
\* characterName: no correction (lines 212-220)
characterName_entries(r, teamNum, rosterNum) ==
    {getTeamString(r, teamNum, x) : x \in rosterSpots(rosterNum)}
\* battersFaced, runsAllowed, outsPitched: the correction, then defensiveStats
\* of the corrected teamNum for each roster spot
battersFaced(r, teamNum, rosterNum) ==
    UNION {defensiveStats(r, teamNumVersionCorrection(r, teamNum), x) : x \in rosterSpots(rosterNum)}
runsAllowed(r, teamNum, rosterNum) ==
    UNION {defensiveStats(r, teamNumVersionCorrection(r, teamNum), x) : x \in rosterSpots(rosterNum)}
outsPitched(r, teamNum, rosterNum) ==
    UNION {defensiveStats(r, teamNumVersionCorrection(r, teamNum), x) : x \in rosterSpots(rosterNum)}
\* atBats (hits and the other offensive sums alike): the correction, then
\* offensiveStats of the corrected teamNum
atBats(r, teamNum, rosterNum) ==
    UNION {offensiveStats(r, teamNumVersionCorrection(r, teamNum), x) : x \in rosterSpots(rosterNum)}
\* inningsPitched: the correction, then outsPitched / 3
inningsPitched(r, teamNum, rosterNum) ==
    outsPitched(r, teamNumVersionCorrection(r, teamNum), rosterNum)
\* era: the correction, then 9 * runsAllowed / inningsPitched
era(r, teamNum, rosterNum) ==
    runsAllowed(r, teamNumVersionCorrection(r, teamNum), rosterNum)
    \cup inningsPitched(r, teamNumVersionCorrection(r, teamNum), rosterNum)
\* ----------------------------------------------------------- EventObj
\* EventObj.score(teamNum): the score of a side at the event, uncorrected
event_score(e, teamNum) == IF teamNum = 0 THEN e.away ELSE e.home

bool_runner_on_base(e, baseNum) ==
    IF baseNum = -1
    THEN IF \E i \in 1..3 : i \in e.runners THEN 1 ELSE 0
    ELSE IF baseNum \in e.runners THEN 1 ELSE 0

bool_steal(e, baseNum) ==
    IF baseNum = -1
    THEN IF \E i \in 1..3 : i \in e.steals THEN 1 ELSE 0
    ELSE IF baseNum \in e.steals THEN 1 ELSE 0

\* --------------------------------------------- EventSearch.__init__
EmptyBuckets(keys) == [k \in keys |-> {}]

\* lines 731-778: every dict pre-seeded with its keys, every marker set empty
NewIndex(r) ==
    [result_of_AB |-> EmptyBuckets(FINAL_RESULT),
     first_fielder_position |-> EmptyBuckets(POSITION),
     pitch_type |-> EmptyBuckets(PITCH_TYPE),
     charge_type |-> EmptyBuckets(CHARGE_TYPE),
     swing_type |-> EmptyBuckets(TYPE_OF_SWING),
     contact_type |-> EmptyBuckets(CONTACT_TYPE),
     input_direction |-> EmptyBuckets(INPUT_DIRECTION),
     rbi |-> EmptyBuckets(0..4),
     inning |-> EmptyBuckets(1..inningsPlayed(r)),
     away_score |-> EmptyBuckets(0..score(r, 0)),
     home_score |-> EmptyBuckets(0..score(r, 1)),
     balls |-> EmptyBuckets(0..3),
     strikes |-> EmptyBuckets(0..4),
     outs_in_inning |-> EmptyBuckets(0..2),
     half_inning |-> EmptyBuckets(0..1),
     chem_on_base |-> EmptyBuckets(0..3),
     runners_on_base |-> EmptyBuckets(0..3),
     pitcher_stamina |-> EmptyBuckets(0..10),
     star_chance |-> EmptyBuckets(0..1),
     outs_during_event |-> EmptyBuckets(0..3),
     pitch_in_strikezone |-> EmptyBuckets(0..1),
     contact_frame |-> EmptyBuckets(0..10),
     steal |-> {}, star_pitch |-> {}, bobble |-> {}, fireball_burn |-> {},
     five_star_dinger |-> {}, sliding_catch |-> {}, wall_jump |-> {},
     manual_character_selection |-> {}, first_pitch_of_AB |-> {},
     last_pitch_of_AB |-> {}, home_team_winning |-> {}, away_team_winning |-> {},
     game_tied |-> {}, lead_changed |-> {},
     character_action |->
        [c \in characterGameStats(r) |-> [AtBat |-> {}, Pitching |-> {}, Fielding |-> {}]]]

\* The body of the loop is a chain of statements; the first that raises ends it.
Ok(ix) == [err |-> "", ix |-> ix]
Fail(e, ix) == [err |-> e, ix |-> ix]
Then(r, F(_)) == IF r.err # "" THEN r ELSE F(r.ix)

\* self._<axis>[key].add(n): KeyError when the key was not pre-seeded
AddTo(ix, axis, key, n) ==
    IF key \in DOMAIN ix[axis] THEN Ok([ix EXCEPT ![axis][key] = @ \cup {n}])
    ELSE Fail("KeyError", ix)

\* the same inside try / except KeyError
TryAddTo(ix, axis, key, n) ==
    IF key \in DOMAIN ix[axis] THEN Ok([ix EXCEPT ![axis][key] = @ \cup {n}]) ELSE Ok(ix)

\* if cond: self._<marker>.add(n)
Mark(ix, marker, cond, n) ==
    Ok(IF cond THEN [ix EXCEPT ![marker] = @ \cup {n}] ELSE ix)

\* self.character_action_dict[char][role].add(n)
AddAction(ix, char, role, n) ==
    IF char.kind = "raise" THEN Fail(char.exc, ix)
    ELSE IF char.val \in DOMAIN ix.character_action
         THEN Ok([ix EXCEPT !.character_action[char.val][role] = @ \cup {n}])
         ELSE Fail("KeyError", ix)

\* line 892 with the fireball burn kept apart from the bobbles
first_fielder_bobbled_unburnt(f) == f.bobble \notin {"None", "Fireball"}

\* line 892: "if currentEvent.first_fielder_bobble() != 'None'"
first_fielder_bobbled(f) == f.bobble # "None"

\* line 835 with "and" written as "or": any pitch at no balls or no strikes
first_pitch_of_AB_either(e) == e.balls = 0 \/ e.strikes = 0

\* line 835: "if currentEvent.balls() == 0 and currentEvent.strikes() == 0"
first_pitch_of_AB(e) == e.balls = 0 /\ e.strikes = 0

\* line 838: "if currentEvent.result_of_AB() != 'None'"
last_pitch_of_AB(e) == e.result # "None"

\* lines 832-907 behind "if not pitch_dict(): continue"
IndexPitchBody(ix0, e, n) ==
    LET p == e.pitch
        c == p.contact
        f == c.fielder
        Fielding(ix) ==
            IF ~f.present THEN Ok(ix)
            ELSE
            Then(AddAction(ix, Ret(f.char), "Fielding", n), LAMBDA i1 :
            Then(Mark(i1, "bobble", first_fielder_bobbled(f), n), LAMBDA i2 :
            Then(Mark(i2, "fireball_burn", f.bobble = "Fireball", n), LAMBDA i3 :
            Then(Mark(i3, "sliding_catch", f.action = "Sliding", n), LAMBDA i4 :
            Then(Mark(i4, "wall_jump", f.action = "Walljump", n), LAMBDA i5 :
            Then(AddTo(i5, "first_fielder_position", f.pos, n), LAMBDA i6 :
            Mark(i6, "manual_character_selection", f.manual # "No Selected Char", n)))))))
        Contacted(ix) ==
            IF ~c.present THEN Ok(ix)
            ELSE
            Then(AddTo(ix, "contact_type", c.type, n), LAMBDA i1 :
            Then(AddTo(i1, "input_direction", c.stick, n), LAMBDA i2 :
            Then(AddTo(i2, "contact_frame", c.frame, n), LAMBDA i3 :
            Then(Mark(i3, "five_star_dinger", c.fivestar = 1, n), LAMBDA i4 :
            Fielding(i4)))))
    IN  Then(Mark(ix0, "first_pitch_of_AB", first_pitch_of_AB(e), n), LAMBDA i1 :
        Then(Mark(i1, "last_pitch_of_AB", last_pitch_of_AB(e), n), LAMBDA i2 :
        Then(TryAddTo(i2, "pitch_type", p.ptype, n), LAMBDA i3 :
        Then(TryAddTo(i3, "charge_type", p.ctype, n), LAMBDA i4 :
        Then(AddTo(i4, "pitch_in_strikezone", p.zone, n), LAMBDA i5 :
        Then(AddTo(i5, "swing_type", p.swing, n), LAMBDA i6 :
        Then(Mark(i6, "star_pitch", p.star = 1, n), LAMBDA i7 :
        Contacted(i7))))))))

\* lines 832-907 with the guard of line 832 dropped: an event without a Pitch
\* is indexed from the defaults of the absent sub-record
IndexPitch_unguarded(ix0, e, n) ==
    IF e.pitch.present THEN IndexPitchBody(ix0, e, n)
    ELSE AddTo(ix0, "pitch_in_strikezone", e.pitch.zone, n)

\* lines 832-907: the part of the loop body that indexes the Pitch sub-record
IndexPitch(ix0, e, n) ==
    IF ~e.pitch.present THEN Ok(ix0) ELSE IndexPitchBody(ix0, e, n)

\* lines 824-826 with the loop left at the first runner found: an event is
\* filed under its lowest occupied base only
IndexRunners_lowest(ix, e, n) ==
    IF bool_runner_on_base(e, -1) = 0
    THEN AddTo(ix, "runners_on_base", 0, n)
    ELSE AddTo(ix, "runners_on_base",
               CHOOSE b \in 1..3 : bool_runner_on_base(e, b) = 1
                                   /\ \A c \in 1..(b - 1) : bool_runner_on_base(e, c) = 0, n)

\* lines 821-826: the runner-occupancy buckets of one event
IndexRunners(ix, e, n) ==
    IF bool_runner_on_base(e, -1) = 0
    THEN AddTo(ix, "runners_on_base", 0, n)
    ELSE Ok([ix EXCEPT !.runners_on_base =
                [b \in DOMAIN @ |-> IF b \in 1..3 /\ bool_runner_on_base(e, b) = 1
                                    THEN @[b] \cup {n} ELSE @[b]]])

\* lines 803-804 with ">" written as ">=": a play that only ties the game counts
lead_changed_tying(e) ==
    LET batting_team == e.half
        fielding_team == Abs(batting_team - 1)
    IN  /\ event_score(e, batting_team) + e.rbi >= event_score(e, fielding_team)
        /\ event_score(e, batting_team) <= event_score(e, fielding_team)

\* lines 786-787, 803: the condition under which event e is added to _lead_changed
lead_changed(e) ==
    LET batting_team == e.half
        fielding_team == Abs(batting_team - 1)
    IN  /\ event_score(e, batting_team) + e.rbi > event_score(e, fielding_team)
        /\ event_score(e, batting_team) <= event_score(e, fielding_team)

\* lines 797-802 with ">" written as ">=": a level score counts for the away side
score_state_level(e) ==
    IF event_score(e, 0) >= event_score(e, 1) THEN "away_team_winning"
    ELSE IF event_score(e, 0) < event_score(e, 1) THEN "home_team_winning"
    ELSE "game_tied"

\* lines 797-802: the set the if / elif / else on the two scores adds the event to
score_state(e) ==
    IF event_score(e, 0) > event_score(e, 1) THEN "away_team_winning"
    ELSE IF event_score(e, 0) < event_score(e, 1) THEN "home_team_winning"
    ELSE "game_tied"

\* eventDict[key] read as if by eventDict.get(key, default): no KeyError
Read_get(ix, e, key, r) == r

\* eventDict[key] in an EventObj accessor: KeyError when the event has no such
\* key, otherwise the statement r that uses the value goes on
Read(ix, e, key, r) == IF key \in e.missing THEN Fail("KeyError", ix) ELSE r

\* line 783: rioEventNum = eventNum % 256 (assigned, read nowhere)
rioEventNum(pos) == pos % EventNumWrap

\* the events filed under the number the game recorded for them
event_id_recorded(pos) == rioEventNum(pos)

\* lines 780-907: the id every .add(eventNum) files the event under is the
\* counter of enumerate, the position of the event in statJson['Events']
event_id(pos) == pos

\* lines 784-907: one pass of the loop, for the event at position pos (0-based)
\* of r; EventObj(rioStat, eventNum) takes all_events[eventNum] (line 1419)
IndexEvent(r, binding, ix0, pos) ==
    LET e == r.events[pos + 1]
        n == event_id(pos)
        batting_team == e.half
        fielding_team == Abs(batting_team - 1)
        batter == characterName(r, binding, batting_team, e.batterLoc)
        pitcher == characterName(r, binding, fielding_team, e.pitcherLoc)
        away == event_score(e, 0)
        home == event_score(e, 1)
    IN  Then(Read(ix0, e, "half", Ok(ix0)), LAMBDA h0 :
        Then(Read(h0, e, "batterLoc", IF batter.kind = "raise" THEN Fail(batter.exc, h0) ELSE Ok(h0)), LAMBDA h1 :
        Then(Read(h1, e, "pitcherLoc", IF pitcher.kind = "raise" THEN Fail(pitcher.exc, h1) ELSE Ok(h1)), LAMBDA h2 :
        Then(AddAction(h2, batter, "AtBat", n), LAMBDA i1 :
        Then(AddAction(i1, pitcher, "Pitching", n), LAMBDA i2 :
        Then(Read(i2, e, "away", AddTo(i2, "away_score", away, n)), LAMBDA i3 :
        Then(Read(i3, e, "home", AddTo(i3, "home_score", home, n)), LAMBDA i4 :
        Then(Mark(i4, score_state(e), TRUE, n), LAMBDA i7 :
        Then(Read(i7, e, "rbi", Mark(i7, "lead_changed", lead_changed(e), n)), LAMBDA i8 :
        Then(Read(i8, e, "outs", AddTo(i8, "outs_in_inning", e.outs, n)), LAMBDA i9 :
        Then(Read(i9, e, "chem", AddTo(i9, "chem_on_base", e.chem, n)), LAMBDA i10 :
        Then(Read(i10, e, "strikes", AddTo(i10, "strikes", e.strikes, n)), LAMBDA i11 :
        Then(Read(i11, e, "balls", AddTo(i11, "balls", e.balls, n)), LAMBDA i12 :
        Then(Read(i12, e, "inning", AddTo(i12, "inning", e.inning, n)), LAMBDA i13 :
        Then(AddTo(i13, "rbi", e.rbi, n), LAMBDA i14 :
        Then(Read(i14, e, "stamina", AddTo(i14, "pitcher_stamina", e.stamina, n)), LAMBDA i15 :
        Then(Read(i15, e, "star", AddTo(i15, "star_chance", e.star, n)), LAMBDA i16 :
        Then(Read(i16, e, "outsPlay", AddTo(i16, "outs_during_event", e.outsPlay, n)), LAMBDA i17 :
        Then(AddTo(i17, "half_inning", e.half, n), LAMBDA i18 :
        Then(Read(i18, e, "result", AddTo(i18, "result_of_AB", e.result, n)), LAMBDA i19 :
        Then(IndexRunners(i19, e, n), LAMBDA i20 :
        Then(Mark(i20, "steal", bool_steal(e, -1) = 1, n), LAMBDA i21 :
        IndexPitch(i21, e, n)))))))))))))))))))))))

\* ------------------------------------------------------------ the machine
NoQuery == [op |-> "", arg |-> <<>>, out |-> Ret({})]
\* no second EventSearch has been asked for
NotAgain == [phase |-> "none", eventNum |-> 0, idx |-> <<>>, raised |-> ""]

\* events() handed out as one shared iterator: an enumeration goes on where
\* the one before it stands
enumerate_start_shared(consumed) == consumed

\* line 780: enumerate(self.rioStat.events()). events() returns the list
\* statJson['Events'] (line 719); every enumeration of it starts at event 0,
\* however many events another enumeration has consumed.
enumerate_start(consumed) == 0

\* EventSearch(rioStat) entered: the dicts are pre-seeded, the loop is at event 0
InitOver(statFiles, binding) ==
    /\ rec \in statFiles
    /\ Lookup = binding
    /\ phase = "building"
    /\ eventNum = enumerate_start(0)
    /\ idx = NewIndex(rec)
    /\ raised = ""
    /\ last = NoQuery
    /\ again = NotAgain

InitWith(binding) == InitOver(Records, binding)

\* stat_file_parser.py imports the class Lookup
Init == InitWith("class")

\* one pass of "for eventNum, event in enumerate(self.rioStat.events())"
LoopStep ==
    /\ phase = "building"
    /\ eventNum < Len(rec.events)
    /\ LET r == IndexEvent(rec, Lookup, idx, eventNum)
       IN  /\ idx' = r.ix
           /\ raised' = r.err
           /\ phase' = IF r.err = "" THEN "building" ELSE "failed"
           /\ eventNum' = IF r.err = "" THEN eventNum + 1 ELSE eventNum
    /\ UNCHANGED <<rec, Lookup, last, again>>

\* the loop is exhausted: __init__ returns
LoopEnd ==
    /\ phase = "building"
    /\ eventNum = Len(rec.events)
    /\ phase' = "ready"
    /\ UNCHANGED <<rec, Lookup, eventNum, idx, raised, last, again>>

\* EventSearch(rioStat) is called once more on the same StatObj, at any time:
\* lines 731-778 create the dicts and sets of the new instance
BuildAgain ==
    /\ again.phase = "none"
    /\ again' = [phase |-> "building", eventNum |-> enumerate_start(eventNum),
                 idx |-> NewIndex(rec), raised |-> ""]
    /\ UNCHANGED <<rec, Lookup, phase, eventNum, idx, raised, last>>

\* one pass of the loop of the second construction
AgainLoopStep ==
    /\ again.phase = "building"
    /\ again.eventNum < Len(rec.events)
    /\ LET r == IndexEvent(rec, Lookup, again.idx, again.eventNum)
       IN  again' = [phase |-> IF r.err = "" THEN "building" ELSE "failed",
                     eventNum |-> IF r.err = "" THEN again.eventNum + 1 ELSE again.eventNum,
                     idx |-> r.ix, raised |-> r.err]
    /\ UNCHANGED <<rec, Lookup, phase, eventNum, idx, raised, last>>

\* the loop of the second construction is exhausted: its __init__ returns
AgainLoopEnd ==
    /\ again.phase = "building"
    /\ again.eventNum = Len(rec.events)
    /\ again' = [again EXCEPT !.phase = "ready"]
    /\ UNCHANGED <<rec, Lookup, phase, eventNum, idx, raised, last>>

\* ------------------------------------------------------- the queries
\* EventSearch.__errorCheck_baseNum
errorCheck_baseNum(baseNum) ==
    IF Abs(baseNum) \notin {0, 1, 2, 3} THEN Raise("ValueError") ELSE Ret({})

\* EventSearch.__errorCheck_halfInningNum
errorCheck_halfInningNum(halfInningNum) ==
    IF halfInningNum \notin {0, 1} THEN Raise("ValueError") ELSE Ret({})

\* lines 1076-1085 with exclude_bases emptied: no base is ever excluded
exclude_bases_none(baseNums) == {}

\* lines 1076-1085: the three lists the loop over baseNums builds
exclude_bases(baseNums) ==
    {b \in {1, 2, 3} : \A k \in 1..Len(baseNums) : Abs(baseNums[k]) # b}
IsRequired(i) == i > 0
IsOptional(i) == ~(i > 0)
required_bases(baseNums) == SelectSeq(baseNums, IsRequired)
optional_bases(baseNums) ==
    LET opt == SelectSeq(baseNums, IsOptional) IN [k \in 1..Len(opt) |-> Abs(opt[k])]
Elems(s) == {s[k] : k \in 1..Len(s)}

\* line 1072: self._runners_on_base_dict['None']. The keys of the dict are
\* range(4) (line 748); the string 'None' is none of them.
runners_on_base_None(ix) == Raise("KeyError")

\* line 1092: self.eventFinal(). EventSearch defines no eventFinal (final_event
\* is a method of StatObj) and no __getattr__.
eventFinal(ix) == Raise("AttributeError")

\* lines 1087-1088 without the test: 0 passes alongside a required base
zero_with_required_unchecked(required, optional) == FALSE

\* lines 1087-1088: "if required_bases and (0 in optional_bases): raise ValueError"
zero_with_required(required, optional) ==
    required # <<>> /\ 0 \in Elems(optional)

\* EventSearch.runnerOnBaseEvents(baseNums)
runnerOnBaseEvents(ix, baseNums) ==
    LET runner_on_base == ix.runners_on_base
        required == required_bases(baseNums)
        optional == optional_bases(baseNums)
        exclude == exclude_bases(baseNums)
        final == eventFinal(ix)
        start ==
            IF required # <<>>
            THEN IF final.kind = "raise" THEN final
                 ELSE Ret({n \in 0..final.val :
                             \A k \in 1..Len(required) : n \in runner_on_base[required[k]]})
            ELSE Ret({})
        widened ==
            IF start.val = {}
            THEN UNION {runner_on_base[b] : b \in Elems(optional)}
            ELSE start.val
    IN  IF \E k \in 1..Len(baseNums) : errorCheck_baseNum(baseNums[k]).kind = "raise"
        THEN Raise("ValueError")
        ELSE IF Len(baseNums) > 3 THEN Raise("ValueError")
        ELSE IF baseNums = <<0>> THEN runners_on_base_None(ix)
        ELSE IF zero_with_required(required, optional) THEN Raise("ValueError")
        ELSE IF start.kind = "raise" THEN start
        ELSE Ret(widened \ UNION {runner_on_base[b] : b \in exclude})

\* the class_variable argument of listInputHandling: a dict, or a str
DictVar(d) == [isDict |-> TRUE, d |-> d]
StrVar == [isDict |-> FALSE, d |-> <<>>]

\* for j in range(lo, hi): result = result.union(class_variable[j])
RangeUnion(d, lo, hi, result) ==
    IF \E j \in lo..(hi - 1) : j \notin DOMAIN d THEN Raise("KeyError")
    ELSE Ret(result \cup UNION {d[j] : j \in lo..(hi - 1)})

\* lines 1111-1122: the loop of listInputHandling from position k on
RECURSIVE listInputLoop(_, _, _, _, _)
listInputLoop(inputList, k, class_variable, to_zero, result) ==
    IF k > Len(inputList) THEN Ret(result)
    ELSE LET i == inputList[k]
             d == class_variable.d
         IN  IF ~class_variable.isDict THEN Raise("TypeError")   \* int in str
             ELSE IF Abs(i) \notin DOMAIN d
                  THEN listInputLoop(inputList, k + 1, class_variable, to_zero, result)
             ELSE IF i >= 0
                  THEN listInputLoop(inputList, k + 1, class_variable, to_zero, result \cup d[i])
             ELSE LET swept == IF to_zero THEN RangeUnion(d, 0, Abs(i), result)
                                          ELSE RangeUnion(d, Abs(i), Max(DOMAIN d) + 1, result)
                  IN  IF swept.kind = "raise" THEN swept
                      ELSE listInputLoop(inputList, k + 1, class_variable, to_zero, swept.val)

\* listInputHandling with the type of class_variable tested ahead of the loop
listInputHandling_typed(inputList, class_variable, to_zero) ==
    IF ~class_variable.isDict THEN Raise("TypeError")
    ELSE listInputLoop(inputList, 1, class_variable, to_zero, {})

\* EventSearch.listInputHandling(inputList, class_variable, to_zero=False)
listInputHandling(inputList, class_variable, to_zero) ==
    listInputLoop(inputList, 1, class_variable, to_zero, {})

\* The ordinal queries. Each wraps a single value into a one-element list
\* (the arguments below are the lists after that step) and hands a dict over.
inningEvents(ix, a) == listInputHandling(a, DictVar(ix.inning), FALSE)
awayScoreEvents(ix, a) == listInputHandling(a, DictVar(ix.home_score), FALSE)
homeScoreEvents(ix, a) == listInputHandling(a, DictVar(ix.home_score), FALSE)
ballEvents(ix, a) == listInputHandling(a, DictVar(ix.balls), FALSE)
strikeEvents(ix, a) == listInputHandling(a, DictVar(ix.strikes), FALSE)
chemOnBaseEvents(ix, a) == listInputHandling(a, DictVar(ix.chem_on_base), FALSE)
rbiEvents(ix, a) == listInputHandling(a, DictVar(ix.rbi), FALSE)
numOutsDuringPlayEvents(ix, a) == listInputHandling(a, DictVar(ix.outs_during_event), FALSE)
contactFrameEvents(ix, a) == listInputHandling(a, DictVar(ix.contact_frame), FALSE)
pitcherStaminaEvents(ix, a) == listInputHandling(a, StrVar, TRUE)

\* EventSearch.halfInningEvents(halfInningNum)
halfInningEvents(ix, halfInningNum) ==
    IF errorCheck_halfInningNum(halfInningNum).kind = "raise" THEN Raise("ValueError")
    ELSE Ret(ix.half_inning[halfInningNum])

\* EventSearch.outsInInningEvents(outsNum): the argument is checked by
\* __errorCheck_halfInningNum (line 1189)
outsInInningEvents(ix, outsNum) ==
    IF errorCheck_halfInningNum(outsNum).kind = "raise" THEN Raise("ValueError")
    ELSE IF outsNum >= 0 THEN Ret(ix.outs_in_inning[outsNum])
    ELSE RangeUnion(ix.outs_in_inning, Abs(outsNum), 3, {})

\* EventSearch.strikeoutResultEvents() and hitResultEvents(numberOfBases=0)
strikeoutResultEvents(ix) == Ret(ix.result_of_AB["Strikeout"])
hitResultEvents(ix, numberOfBases) ==
    Ret(CASE numberOfBases = 1 -> ix.result_of_AB["Single"]
          [] numberOfBases = 2 -> ix.result_of_AB["Double"]
          [] numberOfBases = 3 -> ix.result_of_AB["Triple"]
          [] numberOfBases = 4 -> ix.result_of_AB["HR"]
          [] OTHER -> ix.result_of_AB["Single"] \cup ix.result_of_AB["Double"]
                      \cup ix.result_of_AB["Triple"] \cup ix.result_of_AB["HR"])

\* EventSearch.firstFielderPositionEvents(location_abbreviation)
firstFielderPositionEvents(ix, location_abbreviation) ==
    IF location_abbreviation \notin DOMAIN ix.first_fielder_position THEN Raise("ValueError")
    ELSE Ret(ix.first_fielder_position[location_abbreviation])

\* str.lower() on the names the callers below pass
Lowered ==
    [Curve |-> "curve", Charge |-> "charge", Slider |-> "slider", Perfect |-> "perfect",
     ChangeUp |-> "changeup", Knuckle |-> "knuckle", None |-> "none", Slap |-> "slap",
     Star |-> "star", Bunt |-> "bunt", Sour |-> "sour", Nice |-> "nice", Miss |-> "miss"]
lower(str) == IF str \in DOMAIN Lowered THEN Lowered[str] ELSE str

\* the loop of pitchTypeEvents / swingTypeEvents / contactTypeEvents from
\* position k on: the if / elif chain on the lowered name is the table byName,
\* its else branch raises ValueError
RECURSIVE typeListLoop(_, _, _, _)
typeListLoop(typeList, k, byName, result) ==
    IF k > Len(typeList) THEN Ret(result)
    ELSE IF lower(typeList[k]) \in DOMAIN byName
         THEN typeListLoop(typeList, k + 1, byName, result \cup byName[lower(typeList[k])])
         ELSE Raise("ValueError")

\* EventSearch.pitchTypeEvents(pitchType): slider and perfect are charge types
pitchTypeEvents(ix, pitchTypeList) ==
    typeListLoop(pitchTypeList, 1,
                 [curve |-> ix.pitch_type["Curve"], charge |-> ix.pitch_type["Charge"],
                  slider |-> ix.charge_type["Slider"], perfect |-> ix.charge_type["Perfect"],
                  changeup |-> ix.pitch_type["ChangeUp"]], {})

\* EventSearch.swingTypeEvents(swingType)
swingTypeEvents(ix, swingTypeList) ==
    typeListLoop(swingTypeList, 1,
                 [none |-> ix.swing_type["None"], slap |-> ix.swing_type["Slap"],
                  charge |-> ix.swing_type["Charge"], star |-> ix.swing_type["Star"],
                  bunt |-> ix.swing_type["Bunt"]], {})

\* EventSearch.contactTypeEvents(contactType), side 'b' of sour and nice
contactTypeEvents(ix, contactTypeList) ==
    typeListLoop(contactTypeList, 1,
                 [sour |-> ix.contact_type["Sour - Left"] \cup ix.contact_type["Sour - Right"],
                  nice |-> ix.contact_type["Nice - Left"] \cup ix.contact_type["Nice - Right"],
                  perfect |-> ix.contact_type["Perfect"]], {})

\* EventSearch.inputDirectionEvents(input_directions): the dict is subscripted
inputDirectionEvents(ix, input_directions) ==
    IF input_directions \notin DOMAIN ix.input_direction THEN Raise("KeyError")
    ELSE Ret(ix.input_direction[input_directions])

\* characterAtBatEvents / characterPitchingEvents / characterFieldingEvents
\* without the test of lines 1338, 1346, 1354
characterRoleEvents_unguarded(ix, char_id, role) ==
    IF char_id \notin DOMAIN ix.character_action THEN Raise("KeyError")
    ELSE Ret(ix.character_action[char_id][role])

\* the three character queries: role is 'AtBat', 'Pitching' or 'Fielding'
characterRoleEvents(ix, char_id, role) ==
    IF char_id \notin DOMAIN ix.character_action THEN Ret({})
    ELSE Ret(ix.character_action[char_id][role])
characterAtBatEvents(ix, char_id) == characterRoleEvents(ix, char_id, "AtBat")
characterPitchingEvents(ix, char_id) == characterRoleEvents(ix, char_id, "Pitching")
characterFieldingEvents(ix, char_id) == characterRoleEvents(ix, char_id, "Fielding")

\* a query whose optional branch keeps the first optional bucket itself as
\* result: the difference_update of line 1104 then empties that bucket
index_after_inplace(ix, op, arg) ==
    IF /\ op = "runnerOnBaseEvents"
       /\ runnerOnBaseEvents(ix, arg).kind = "ret"
       /\ arg # <<>> /\ arg # <<0>>
       /\ required_bases(arg) = <<>> /\ optional_bases(arg) # <<>>
    THEN [ix EXCEPT !.runners_on_base[optional_bases(arg)[1]] =
                @ \ UNION {ix.runners_on_base[b] : b \in exclude_bases(arg)}]
    ELSE ix

\* The index after a query. No query method assigns to an attribute of self;
\* the in-place updates (lines 1094, 1104) act on result, which is
\* set(range(..)), set() or the value of result.union(..), never a bucket.
index_after(ix, op, arg) == ix

\* ------------------------------------------------ the callers' arguments
\* every list of up to two base numbers, every list of three in ascending
\* order and its reverse, and lists the validation refuses
BaseNumArgs ==
    SeqsUpTo(-3..3, 2)
    \cup {s \in [1..3 -> -3..3] : s[1] <= s[2] /\ s[2] <= s[3]}
    \cup {s \in [1..3 -> -3..3] : s[1] >= s[2] /\ s[2] >= s[3]}
    \cup {<<x>> : x \in {-5, -4, 4, 5}}
    \cup {<<x, y>> : x \in {-4, 4}, y \in -3..3}
    \cup {<<y, x>> : x \in {-4, 4}, y \in -3..3}
    \cup {Append(s, x) : s \in [1..3 -> {-1, 0, 2}], x \in {1, 4}}

ListVals == {-1, 0, 1}
\* the arguments of an ordinal query whose largest key is top: every single
\* value up to Beyond past the keys, of either sign, and short lists
OrdinalArgs(top) ==
    {<<v>> : v \in (-(top + Beyond))..(top + Beyond)} \cup SeqsUpTo(ListVals, MaxListLen)
TopInning == Max({m.innings : m \in MetaPool})
TopScore == Max({m.awayFinal : m \in MetaPool} \cup {m.homeFinal : m \in MetaPool})

HalfInningArgs == -2..3
OutsArgs == -3..3
HitArgs == 0..5
PositionArgs == {"SS", "CF", "P", "DH"}
PitchTypeArgs == SeqsUpTo({"Curve", "slider", "Knuckle"}, 2)
SwingTypeArgs == SeqsUpTo({"Slap", "bunt", "Swing"}, 2)
ContactTypeArgs == SeqsUpTo({"Nice", "perfect", "Foul"}, 2)
InputDirectionArgs == {"", "Right", "Left+Up", "Diagonal"}
CharacterArgs == {"Mario", "Luigi", "DK", "0", "Peach"}

\* a caller runs a query on the constructed engine; last holds the call and
\* its outcome until the caller has taken it
Call(op, arg, out) ==
    /\ phase = "ready"
    /\ last.op = ""
    /\ last' = [op |-> op, arg |-> arg, out |-> out]
    /\ idx' = index_after(idx, op, arg)
    /\ UNCHANGED <<rec, Lookup, phase, eventNum, raised, again>>

\* the caller has taken the outcome; the engine is free for the next query
Return ==
    /\ last.op # ""
    /\ last' = NoQuery
    /\ UNCHANGED <<rec, Lookup, phase, eventNum, idx, raised, again>>

\* a caller reads the StatObj through one of its accessors, for either side
\* and for the whole team, the first or the last roster spot; last holds the
\* call and the entries it read
StatCall(op, reads(_, _, _)) ==
    \E teamNum \in 0..1, rosterNum \in {-1, 0, 8} :
        /\ last.op = ""
        /\ last' = [op |-> op, arg |-> <<teamNum, rosterNum>>,
                    out |-> Ret(reads(rec, teamNum, rosterNum))]
        /\ UNCHANGED <<rec, Lookup, phase, eventNum, idx, raised, again>>
CallOffensiveStats == StatCall("offensiveStats", offensiveStats)
CallDefensiveStats == StatCall("defensiveStats", defensiveStats)
CallIsStarred == StatCall("isStarred", isStarred)
CallCharacterName == StatCall("characterName", characterName_entries)
CallBattersFaced == StatCall("battersFaced", battersFaced)
CallRunsAllowed == StatCall("runsAllowed", runsAllowed)
CallAtBats == StatCall("atBats", atBats)
CallEra == StatCall("era", era)

CallRunnerOnBaseEvents ==
    \E a \in BaseNumArgs : Call("runnerOnBaseEvents", a, runnerOnBaseEvents(idx, a))
CallHalfInningEvents ==
    \E n \in HalfInningArgs : Call("halfInningEvents", <<n>>, halfInningEvents(idx, n))
CallOutsInInningEvents ==
    \E n \in OutsArgs : Call("outsInInningEvents", <<n>>, outsInInningEvents(idx, n))
CallInningEvents == \E a \in OrdinalArgs(TopInning) : Call("inningEvents", a, inningEvents(idx, a))
CallAwayScoreEvents == \E a \in OrdinalArgs(TopScore) : Call("awayScoreEvents", a, awayScoreEvents(idx, a))
CallHomeScoreEvents == \E a \in OrdinalArgs(TopScore) : Call("homeScoreEvents", a, homeScoreEvents(idx, a))
CallBallEvents == \E a \in OrdinalArgs(3) : Call("ballEvents", a, ballEvents(idx, a))
CallStrikeEvents == \E a \in OrdinalArgs(4) : Call("strikeEvents", a, strikeEvents(idx, a))
CallChemOnBaseEvents == \E a \in OrdinalArgs(3) : Call("chemOnBaseEvents", a, chemOnBaseEvents(idx, a))
CallRbiEvents == \E a \in OrdinalArgs(4) : Call("rbiEvents", a, rbiEvents(idx, a))
CallNumOutsDuringPlayEvents ==
    \E a \in OrdinalArgs(3) : Call("numOutsDuringPlayEvents", a, numOutsDuringPlayEvents(idx, a))
CallContactFrameEvents ==
    \E a \in OrdinalArgs(10) : Call("contactFrameEvents", a, contactFrameEvents(idx, a))
CallPitcherStaminaEvents ==
    \E a \in OrdinalArgs(10) : Call("pitcherStaminaEvents", a, pitcherStaminaEvents(idx, a))
CallStrikeoutResultEvents == Call("strikeoutResultEvents", <<>>, strikeoutResultEvents(idx))
CallHitResultEvents == \E n \in HitArgs : Call("hitResultEvents", <<n>>, hitResultEvents(idx, n))
CallFirstFielderPositionEvents ==
    \E l \in PositionArgs : Call("firstFielderPositionEvents", <<l>>, firstFielderPositionEvents(idx, l))
CallPitchTypeEvents == \E a \in PitchTypeArgs : Call("pitchTypeEvents", a, pitchTypeEvents(idx, a))
CallSwingTypeEvents == \E a \in SwingTypeArgs : Call("swingTypeEvents", a, swingTypeEvents(idx, a))
CallContactTypeEvents == \E a \in ContactTypeArgs : Call("contactTypeEvents", a, contactTypeEvents(idx, a))
CallInputDirectionEvents ==
    \E d \in InputDirectionArgs : Call("inputDirectionEvents", <<d>>, inputDirectionEvents(idx, d))
CallCharacterAtBatEvents ==
    \E c \in CharacterArgs : Call("characterAtBatEvents", <<c>>, characterAtBatEvents(idx, c))
CallCharacterPitchingEvents ==
    \E c \in CharacterArgs : Call("characterPitchingEvents", <<c>>, characterPitchingEvents(idx, c))
CallCharacterFieldingEvents ==
    \E c \in CharacterArgs : Call("characterFieldingEvents", <<c>>, characterFieldingEvents(idx, c))

Next ==
    \/ LoopStep
    \/ LoopEnd
    \/ CallRunnerOnBaseEvents
    \/ CallHalfInningEvents
    \/ CallOutsInInningEvents
    \/ CallInningEvents
    \/ CallAwayScoreEvents
    \/ CallHomeScoreEvents
    \/ CallBallEvents
    \/ CallStrikeEvents
    \/ CallChemOnBaseEvents
    \/ CallRbiEvents
    \/ CallNumOutsDuringPlayEvents
    \/ CallContactFrameEvents
    \/ CallPitcherStaminaEvents
    \/ CallStrikeoutResultEvents
    \/ CallHitResultEvents
    \/ CallFirstFielderPositionEvents
    \/ CallPitchTypeEvents
    \/ CallSwingTypeEvents
    \/ CallContactTypeEvents
    \/ CallInputDirectionEvents
    \/ CallCharacterAtBatEvents
    \/ CallCharacterPitchingEvents
    \/ CallCharacterFieldingEvents
    \/ Return

Spec == Init /\ [][Next]_vars

\* The same machine with Lookup bound to an instance of the class, the binding
\* get_character's signature (self, search_term, output_format) is written for.
InitBound == InitWith("instance")
SpecBound == InitBound /\ [][Next]_vars

\* Two constructions over one StatObj, the second started at any moment of
\* the first or after it.
NextTwice ==
    \/ LoopStep
    \/ LoopEnd
    \/ BuildAgain
    \/ AgainLoopStep
    \/ AgainLoopEnd
SpecTwice == InitBound /\ [][NextTwice]_vars

\* The StatObj of a match read through its accessors, without EventSearch:
\* one stat file per format version, final score and roster of MetaPool.
StatFiles == {Record(m, <<>>) : m \in MetaPool}
InitStat == InitOver(StatFiles, "class")
NextStat ==
    \/ CallOffensiveStats
    \/ CallDefensiveStats
    \/ CallIsStarred
    \/ CallCharacterName
    \/ CallBattersFaced
    \/ CallRunsAllowed
    \/ CallAtBats
    \/ CallEra
    \/ Return
SpecStat == InitStat /\ [][NextStat]_vars

\* The machine over the match of more than 256 events.
InitLong == InitOver({LongRecord}, "instance")
SpecLong == InitLong /\ [][Next]_vars

\* ================================================================ claims
NumEvents == Len(rec.events)
EventIds == 0..(NumEvents - 1)
EventOf(n) == rec.events[n + 1]
BucketsOf(axis, n) == {k \in DOMAIN idx[axis] : n \in idx[axis][k]}
Indexed(axis) == UNION {idx[axis][k] : k \in DOMAIN idx[axis]}
Built == phase # "building"

\* a record that keeps to the format: every mandatory field of every event is
\* in the range of its axis, the scores do not pass the final scores, and the
\* rosters name their characters
WellFormedButResult ==
    /\ \A t \in 0..1, loc \in 0..8 : rec.roster[t][loc] \in CharNames
    /\ \A k \in 1..NumEvents :
        LET e == rec.events[k]
        IN  /\ e.missing = {}
            /\ e.inning \in 1..rec.innings
            /\ e.half \in 0..1
            /\ e.away \in 0..rec.awayFinal
            /\ e.home \in 0..rec.homeFinal
            /\ e.balls \in 0..3 /\ e.strikes \in 0..4 /\ e.outs \in 0..2
            /\ e.chem \in 0..3 /\ e.rbi \in 0..4 /\ e.stamina \in 0..10
            /\ e.star \in 0..1 /\ e.outsPlay \in 0..3
            /\ e.batterLoc \in 0..8 /\ e.pitcherLoc \in 0..8
WellFormed ==
    WellFormedButResult /\ \A k \in 1..NumEvents : rec.events[k].result \in FINAL_RESULT

MandatoryAxes ==
    {"result_of_AB", "inning", "half_inning", "balls", "strikes", "outs_in_inning",
     "away_score", "home_score", "chem_on_base", "rbi", "pitcher_stamina",
     "star_chance", "outs_during_event"}

\* C1: once EventSearch has been constructed over a (well-formed) record of N
\* events, on every mandatory axis the buckets together hold exactly the ids
\* 0..N-1 and every id is in exactly one bucket.
C1_MandatoryAxesPartition ==
    (Built /\ WellFormed) =>
        \A axis \in MandatoryAxes :
            /\ Indexed(axis) = EventIds
            /\ \A n \in EventIds : Cardinality(BucketsOf(axis, n)) = 1

\* the sub-record an event must carry to be indexed on a partial-coverage axis
PitchAxes == {"pitch_type", "charge_type", "swing_type", "pitch_in_strikezone"}
ContactAxes == {"contact_type", "input_direction", "contact_frame"}
FielderAxes == {"first_fielder_position"}
PartialAxes == PitchAxes \cup ContactAxes \cup FielderAxes
Carries(e, axis) ==
    /\ e.pitch.present
    /\ axis \in ContactAxes \cup FielderAxes => e.pitch.contact.present
    /\ axis \in FielderAxes => e.pitch.contact.fielder.present

LastIs(op) == last.op = op
Named(baseNums) == {Abs(x) : x \in Elems(baseNums)}
ZeroWithPositive(baseNums) ==
    0 \in Elems(baseNums) /\ \E x \in Elems(baseNums) : x > 0
ValidBaseNums(baseNums) ==
    /\ Len(baseNums) <= 3
    /\ \A x \in Elems(baseNums) : x \in -3..3
    /\ ~ZeroWithPositive(baseNums)
RunnerBucket(b) == idx.runners_on_base[b]

\* the result the runner-occupancy rule of C3 prescribes
C3_Expected(baseNums) ==
    LET required == {x \in Elems(baseNums) : x > 0}
        optional == {Abs(x) : x \in {y \in Elems(baseNums) : y <= 0}}
        excluded == {b \in 1..3 : b \notin Named(baseNums)}
        chosen == IF required # {}
                  THEN {n \in EventIds : \A b \in required : n \in RunnerBucket(b)}
                  ELSE UNION {RunnerBucket(b) : b \in optional}
    IN  chosen \ UNION {RunnerBucket(b) : b \in excluded}

\* C3: runnerOnBaseEvents of a valid list returns the intersection of the
\* required bases' buckets if a base is required, otherwise the union of the
\* optional bases' buckets, in both cases minus the excluded bases' buckets.
C3_RunnerRule ==
    (LastIs("runnerOnBaseEvents") /\ ValidBaseNums(last.arg)) =>
        last.out = Ret(C3_Expected(last.arg))

C5_BasesEmpty ==
    (LastIs("runnerOnBaseEvents") /\ last.arg = <<0>>) =>
        /\ last.out = Ret(RunnerBucket(0))
        /\ last.out.val = {n \in EventIds : EventOf(n).runners = {}}

\* C6: runnerOnBaseEvents raises the validation error (ValueError), and returns
\* no set, whenever its input holds 0 together with a positive base number.
C6_ZeroWithPositiveRaises ==
    (LastIs("runnerOnBaseEvents") /\ ZeroWithPositive(last.arg)) =>
        last.out = Raise("ValueError")

\* C6 witness: a query holding 0 before, or after, a positive base ([0, 1],
\* [2, 0], [-1, 3, 0]) was refused with ValueError.
C6_Witness ==
    /\ LastIs("runnerOnBaseEvents")
    /\ last.arg \in {<<0, 1>>, <<2, 0>>, <<-1, 3, 0>>}
    /\ last.out = Raise("ValueError")

\* C7: runnerOnBaseEvents raises ValueError for a base number outside -3..3
\* and for more than three base numbers, halfInningEvents raises it for an
\* argument outside {0, 1}, and inside these domains (0 with a positive base
\* apart) neither raises.
C7_ValidationOnly ==
    /\ LastIs("runnerOnBaseEvents") =>
        /\ (Len(last.arg) > 3 \/ \E x \in Elems(last.arg) : x \notin -3..3)
              => last.out = Raise("ValueError")
        /\ ValidBaseNums(last.arg) => last.out.kind = "ret"
    /\ LastIs("halfInningEvents") =>
        /\ last.arg[1] \notin {0, 1} => last.out = Raise("ValueError")
        /\ last.arg[1] \in {0, 1} => last.out.kind = "ret"

\* the axis each ordinal query is documented to read
AxisOf(op) ==
    CASE op = "inningEvents" -> "inning"
      [] op = "awayScoreEvents" -> "away_score"
      [] op = "homeScoreEvents" -> "home_score"
      [] op = "ballEvents" -> "balls"
      [] op = "strikeEvents" -> "strikes"
      [] op = "chemOnBaseEvents" -> "chem_on_base"
      [] op = "rbiEvents" -> "rbi"
      [] op = "numOutsDuringPlayEvents" -> "outs_during_event"
      [] op = "contactFrameEvents" -> "contact_frame"
      [] op = "pitcherStaminaEvents" -> "pitcher_stamina"
AscendingQueries ==
    {"inningEvents", "awayScoreEvents", "homeScoreEvents", "ballEvents", "strikeEvents",
     "chemOnBaseEvents", "rbiEvents", "numOutsDuringPlayEvents", "contactFrameEvents"}
OrdinalQueries == AscendingQueries \cup {"pitcherStaminaEvents"}
\* the query op run on the index as it stands
Query(op, a) ==
    CASE op = "inningEvents" -> inningEvents(idx, a)
      [] op = "awayScoreEvents" -> awayScoreEvents(idx, a)
      [] op = "homeScoreEvents" -> homeScoreEvents(idx, a)
      [] op = "ballEvents" -> ballEvents(idx, a)
      [] op = "strikeEvents" -> strikeEvents(idx, a)
      [] op = "chemOnBaseEvents" -> chemOnBaseEvents(idx, a)
      [] op = "rbiEvents" -> rbiEvents(idx, a)
      [] op = "numOutsDuringPlayEvents" -> numOutsDuringPlayEvents(idx, a)
      [] op = "contactFrameEvents" -> contactFrameEvents(idx, a)
      [] op = "pitcherStaminaEvents" -> pitcherStaminaEvents(idx, a)

C9_StaminaThreshold ==
    (LastIs("pitcherStaminaEvents") /\ Len(last.arg) = 1) =>
        /\ last.arg[1] \in 0..10 => last.out = Ret(idx.pitcher_stamina[last.arg[1]])
        /\ last.arg[1] \in -10..-1 =>
              last.out = Ret(UNION {idx.pitcher_stamina[j] : j \in 0..(-last.arg[1])})

\* C10: an ordinal query of non-negative domain values returns the union of
\* the buckets of these values on its axis (of one value: its bucket), in
\* whatever order and however often the values are listed.
C10_ExactBuckets ==
    (/\ last.op \in OrdinalQueries
     /\ last.arg # <<>>
     /\ \A v \in Elems(last.arg) : v >= 0 /\ v \in DOMAIN idx[AxisOf(last.op)]) =>
        last.out = Ret(UNION {idx[AxisOf(last.op)][v] : v \in Elems(last.arg)})

\* the names each categorical query accepts
AcceptedNames(op) ==
    CASE op = "pitchTypeEvents" -> {"curve", "charge", "slider", "perfect", "changeup"}
      [] op = "swingTypeEvents" -> {"none", "slap", "charge", "star", "bunt"}
      [] op = "contactTypeEvents" -> {"sour", "nice", "perfect"}
      [] op = "inputDirectionEvents" -> INPUT_DIRECTION
      [] op = "firstFielderPositionEvents" -> POSITION
NameListQueries == {"pitchTypeEvents", "swingTypeEvents", "contactTypeEvents"}
CategoricalQueries == NameListQueries \cup {"inputDirectionEvents", "firstFielderPositionEvents"}

\* C11: a query that names a value outside the accepted domain of its axis
\* raises the validation error (ValueError) and returns no set, for the
\* ordinal queries built on listInputHandling and the categorical queries alike.
C11_OutOfDomainRaises ==
    /\ (/\ last.op \in OrdinalQueries
        /\ \E v \in Elems(last.arg) : Abs(v) \notin DOMAIN idx[AxisOf(last.op)])
            => last.out = Raise("ValueError")
    /\ (/\ last.op \in CategoricalQueries
        /\ \E v \in Elems(last.arg) : lower(v) \notin AcceptedNames(last.op) /\ v \notin AcceptedNames(last.op))
            => last.out = Raise("ValueError")

ListQueries == OrdinalQueries \cup NameListQueries \cup {"runnerOnBaseEvents"}

\* C12: every query that accepts a list returns the empty set, and raises
\* nothing, when the list is empty.
C12_EmptyListEmptySet ==
    (last.op \in ListQueries /\ last.arg = <<>>) => last.out = Ret({})

\* C12 witness: pitcherStaminaEvents([]) has returned the empty set.
C12_Witness ==
    /\ LastIs("pitcherStaminaEvents") /\ last.arg = <<>> /\ last.out = Ret({})
    /\ phase = "ready"

\* EventSearch(StatObj(r)) as one call: the loop of __init__ from event n on,
\* ended by the first statement that raises
RECURSIVE BuildFrom(_, _, _, _)
BuildFrom(r, binding, ix, n) ==
    IF n = Len(r.events) THEN Ok(ix)
    ELSE LET step == IndexEvent(r, binding, ix, n)
         IN  IF step.err # "" THEN step ELSE BuildFrom(r, binding, step.ix, n + 1)
Build(r, binding) == BuildFrom(r, binding, NewIndex(r), 0)

UnknownPitchType(e) == e.pitch.present /\ e.pitch.ptype \notin PITCH_TYPE
\* the record with every unknown pitch type replaced by a known one
Recognised(r) ==
    [r EXCEPT !.events =
        [k \in DOMAIN @ |-> IF UnknownPitchType(@[k]) THEN [@[k] EXCEPT !.pitch.ptype = "Curve"]
                             ELSE @[k]]]

\* C13: when an event carries a pitch-type string outside the pitch-type
\* domain, construction succeeds, the event is in no pitch-type bucket, and
\* every other axis of it and every axis of every other event holds what it
\* would hold had the pitch type been a recognised one.
C13_UnknownPitchTypeTolerated ==
    (/\ Built /\ WellFormed
     /\ \E n \in EventIds : UnknownPitchType(EventOf(n))) =>
        LET unknown == {n \in EventIds : UnknownPitchType(EventOf(n))}
            ref == Build(Recognised(rec), Lookup).ix
        IN  /\ phase = "ready"
            /\ \A n \in unknown : BucketsOf("pitch_type", n) = {}
            /\ \A axis \in DOMAIN idx \ {"pitch_type"} : idx[axis] = ref[axis]
            /\ \A k \in PITCH_TYPE : idx.pitch_type[k] = ref.pitch_type[k] \ unknown

CategoricalAxes ==
    {"result_of_AB", "pitch_type", "charge_type", "swing_type", "contact_type",
     "input_direction", "first_fielder_position"}
\* the value an event has on a categorical axis, when it has one
HasValueOn(e, axis) == axis = "result_of_AB" \/ Carries(e, axis)
ValueOn(e, axis) ==
    CASE axis = "result_of_AB" -> e.result
      [] axis = "pitch_type" -> e.pitch.ptype
      [] axis = "charge_type" -> e.pitch.ctype
      [] axis = "swing_type" -> e.pitch.swing
      [] axis = "contact_type" -> e.pitch.contact.type
      [] axis = "input_direction" -> e.pitch.contact.stick
      [] axis = "first_fielder_position" -> e.pitch.contact.fielder.pos
UnknownOn(e, axis) == HasValueOn(e, axis) /\ ValueOn(e, axis) \notin DOMAIN NewIndex(rec)[axis]

CharacterQueries == {"characterAtBatEvents", "characterPitchingEvents", "characterFieldingEvents"}
OnRoster(c) == \E t \in 0..1, loc \in 0..8 : rec.roster[t][loc] = c
\* the roster entries that event e involves in the role a character query asks for
InRole(e, op) ==
    CASE op = "characterAtBatEvents" -> {rec.roster[e.half][e.batterLoc]}
      [] op = "characterPitchingEvents" -> {rec.roster[Abs(e.half - 1)][e.pitcherLoc]}
      [] op = "characterFieldingEvents" ->
            IF Carries(e, "first_fielder_position") THEN {e.pitch.contact.fielder.char} ELSE {}
NoEventInRole(c, op) == \A n \in EventIds : c \notin InRole(EventOf(n), op)

\* C15: the three character queries return the empty set, and raise nothing,
\* for a character on a roster that generated no event in the role asked for,
\* and for a character on neither roster.
C15_CharacterWithoutEvents ==
    (/\ last.op \in CharacterQueries
     /\ ~OnRoster(last.arg[1]) \/ NoEventInRole(last.arg[1], last.op)) =>
        last.out = Ret({})

\* C15 witness: a character of the away roster was asked for in a role it has
\* no event in, and the empty set came back.
C15_Witness ==
    /\ last.op \in CharacterQueries
    /\ OnRoster(last.arg[1]) /\ NoEventInRole(last.arg[1], last.op)
    /\ last.out = Ret({})

\* C16: for the match of three events (0 a strikeout, 1 a single with a runner
\* on first, 2 a home run with the bases empty) construction succeeds and
\* strikeoutResultEvents() = {0}, hitResultEvents() = {1, 2},
\* runnerOnBaseEvents([1]) = {1}, runnerOnBaseEvents([-1, -2, -3]) = {1}.
C16_ScenarioA ==
    (rec = ScenarioA /\ Built) =>
        /\ phase = "ready"
        /\ LastIs("strikeoutResultEvents") => last.out = Ret({0})
        /\ (LastIs("hitResultEvents") /\ last.arg = <<0>>) => last.out = Ret({1, 2})
        /\ (LastIs("runnerOnBaseEvents") /\ last.arg = <<1>>) => last.out = Ret({1})
        /\ (LastIs("runnerOnBaseEvents") /\ last.arg = <<-1, -2, -3>>) => last.out = Ret({1})

\* the query op with argument list arg, run on the index ix
RunQuery(ix, op, arg) ==
    CASE op = "runnerOnBaseEvents" -> runnerOnBaseEvents(ix, arg)
      [] op = "halfInningEvents" -> halfInningEvents(ix, arg[1])
      [] op = "outsInInningEvents" -> outsInInningEvents(ix, arg[1])
      [] op = "inningEvents" -> inningEvents(ix, arg)
      [] op = "awayScoreEvents" -> awayScoreEvents(ix, arg)
      [] op = "homeScoreEvents" -> homeScoreEvents(ix, arg)
      [] op = "ballEvents" -> ballEvents(ix, arg)
      [] op = "strikeEvents" -> strikeEvents(ix, arg)
      [] op = "chemOnBaseEvents" -> chemOnBaseEvents(ix, arg)
      [] op = "rbiEvents" -> rbiEvents(ix, arg)
      [] op = "numOutsDuringPlayEvents" -> numOutsDuringPlayEvents(ix, arg)
      [] op = "contactFrameEvents" -> contactFrameEvents(ix, arg)
      [] op = "pitcherStaminaEvents" -> pitcherStaminaEvents(ix, arg)
      [] op = "strikeoutResultEvents" -> strikeoutResultEvents(ix)
      [] op = "hitResultEvents" -> hitResultEvents(ix, arg[1])
      [] op = "firstFielderPositionEvents" -> firstFielderPositionEvents(ix, arg[1])
      [] op = "pitchTypeEvents" -> pitchTypeEvents(ix, arg)
      [] op = "swingTypeEvents" -> swingTypeEvents(ix, arg)
      [] op = "contactTypeEvents" -> contactTypeEvents(ix, arg)
      [] op = "inputDirectionEvents" -> inputDirectionEvents(ix, arg[1])
      [] op = "characterAtBatEvents" -> characterAtBatEvents(ix, arg[1])
      [] op = "characterPitchingEvents" -> characterPitchingEvents(ix, arg[1])
      [] op = "characterFieldingEvents" -> characterFieldingEvents(ix, arg[1])

Finished(p) == p \in {"ready", "failed"}

BattingScore(e) == IF e.half = 0 THEN e.away ELSE e.home
FieldingScore(e) == IF e.half = 0 THEN e.home ELSE e.away

DictAxes == MandatoryAxes \cup PartialAxes \cup {"runners_on_base"}
MarkerSets ==
    {"steal", "star_pitch", "bobble", "fireball_burn", "five_star_dinger", "sliding_catch",
     "wall_jump", "manual_character_selection", "first_pitch_of_AB", "last_pitch_of_AB",
     "home_team_winning", "away_team_winning", "game_tied", "lead_changed"}
Participation ==
    UNION {idx.character_action[c][role] :
             c \in DOMAIN idx.character_action, role \in {"AtBat", "Pitching", "Fielding"}}
AllIds ==
    UNION {Indexed(axis) : axis \in DictAxes} \cup UNION {idx[m] : m \in MarkerSets}
    \cup Participation

CharactersIn(role, n) == {c \in DOMAIN idx.character_action : n \in idx.character_action[c][role]}

\* C22: for a well-formed record construction succeeds, and every event id is
\* in the AtBat set of exactly one character, the one at the event's batter
\* roster location on the batting side, and in the Pitching set of exactly
\* one, the one at its pitcher roster location on the fielding side; both are
\* keys pre-seeded from the rosters.
C22_BatterAndPitcher ==
    (Built /\ WellFormed) =>
        /\ phase = "ready"
        /\ \A n \in EventIds :
            LET e == EventOf(n)
            IN  /\ CharactersIn("AtBat", n) = {rec.roster[e.half][e.batterLoc]}
                /\ CharactersIn("Pitching", n) = {rec.roster[1 - e.half][e.pitcherLoc]}
                /\ rec.roster[e.half][e.batterLoc] \in DOMAIN NewIndex(rec).character_action
                /\ rec.roster[1 - e.half][e.pitcherLoc] \in DOMAIN NewIndex(rec).character_action

C27_OutsInInning ==
    LastIs("outsInInningEvents") =>
        LET n == last.arg[1]
        IN  /\ n \in {0, 1, 2} => last.out = Ret(idx.outs_in_inning[n])
            /\ n \in {-1, -2} =>
                  last.out = Ret(UNION {idx.outs_in_inning[j] : j \in (-n)..2})
            /\ last.out.kind = "raise" => n \notin -2..2

\* no event of the record is at a score past the final score of its side
ScoresWithinFinal ==
    \A k \in 1..NumEvents :
        /\ rec.events[k].away \in 0..rec.awayFinal
        /\ rec.events[k].home \in 0..rec.homeFinal

\* C28: for a record of any format version whose events stay within the final
\* scores, the pre-seeded range of the away axis is 0..final away score and of
\* the home axis 0..final home score, every event's score has a bucket on its
\* own side's axis, and construction does not fail on a score value
\* (stated of the index as construction leaves it).
C28_ScoreBucketsPreSeeded ==
    (Built /\ ScoresWithinFinal) =>
        /\ DOMAIN idx.away_score = 0..rec.awayFinal
        /\ DOMAIN idx.home_score = 0..rec.homeFinal
        /\ \A n \in EventIds :
            /\ EventOf(n).away \in DOMAIN idx.away_score
            /\ EventOf(n).home \in DOMAIN idx.home_score
        /\ (phase = "failed" /\ raised = "KeyError") =>
            /\ EventOf(eventNum).away \in DOMAIN idx.away_score
            /\ EventOf(eventNum).home \in DOMAIN idx.home_score

\* the events in a Fielding participation set
FieldingIds == UNION {idx.character_action[c].Fielding : c \in DOMAIN idx.character_action}

StatAccessors ==
    {"offensiveStats", "defensiveStats", "isStarred", "characterName", "battersFaced",
     "runsAllowed", "atBats", "era"}

\* C30: for every format version and every teamNum in {0, 1}, every StatObj
\* accessor called with (teamNum, rosterNum) reads the roster entries that
\* defensiveStats(teamNum, rosterNum) reads, which are those of offensiveStats,
\* isStarred and characterName: the same physical team on every call path.
C30_SameTeamOnEveryPath ==
    last.op \in StatAccessors =>
        /\ last.out = Ret(defensiveStats(rec, last.arg[1], last.arg[2]))
        /\ last.out = Ret(characterName_entries(rec, last.arg[1], last.arg[2]))

====
